---- MODULE Spec2Model ----
(***************************************************************************)
(* KTPS 10-day report dashboard (src/app.py): the save handler and its     *)
(* CSV store, two sessions saving at once, the dashboard's monthly         *)
(* aggregation and roll-ups, and the four field extractors.                *)
(*                                                                         *)
(* Numbers are integers counting tenths (31 is 3.1); a mean is the pair    *)
(* <<sum, count>>.  A text is a sequence of lines and a line a sequence of *)
(* tokens; a token is a keyword phrase, a numeric fragment or a separator. *)
(***************************************************************************)
EXTENDS Integers, Sequences, FiniteSets, TLC

VARIABLES csv, sheet, draft, msg, df, saved, base, pc, rec, existing, reported, order,
          text, parsed, view

vars ==
    <<csv, sheet, draft, msg, df, saved, base, pc, rec, existing, reported, order, text, parsed, view>>

(***************************************************************************)
(* Bounds of the model.                                                    *)
(***************************************************************************)
MaxSaves == 2

(***************************************************************************)
(* Values.  A Python value held in a record or a DataFrame cell: a str     *)
(* (carrying the text it consists of), a float, an int, NaN or None.  A    *)
(* CSV text is what stands between two commas of the file: literal text    *)
(* (tk = "lit"), the decimal repr of an int ("int") or of a float          *)
(* ("float").  The JSON text of a sub-table is a literal whose entries are *)
(* kept in j.                                                              *)
(***************************************************************************)
LitText(s) == [tk |-> "lit", s |-> s, n |-> 0, j |-> <<>>]
IntText(n) == [tk |-> "int", s |-> "", n |-> n, j |-> <<>>]
FloatText(x) == [tk |-> "float", s |-> "", n |-> x, j |-> <<>>]
JsonText(entries) == [tk |-> "lit", s |-> "json", n |-> 0, j |-> entries]

StrOf(t) == [k |-> "str", tk |-> t.tk, s |-> t.s, n |-> t.n, j |-> t.j]
Str(s) == StrOf(LitText(s))
Flt(x) == [k |-> "float", tk |-> "", s |-> "", n |-> x, j |-> <<>>]
IntV(n) == [k |-> "int", tk |-> "", s |-> "", n |-> n, j |-> <<>>]
NaN == [k |-> "nan", tk |-> "", s |-> "", n |-> 0, j |-> <<>>]
None == [k |-> "none", tk |-> "", s |-> "", n |-> 0, j |-> <<>>]

\* `x or 0.0`: None and 0.0 are falsy.
OrZero(x) == IF x.k = "none" \/ (x.k = "float" /\ x.n = 0) THEN Flt(0) ELSE x

(***************************************************************************)
(* The CSV layer: DataFrame.to_csv and pandas.read_csv.                    *)
(***************************************************************************)
Header ==
    <<"station", "period_label", "report_date", "vc_merc_order", "vc_recoverable_mod",
      "vc_actual", "vc_unrecoverable_rpkwh", "fuel_cost_disallowance_rs_cr",
      "sp_coal_allowable", "sp_coal_actual", "aux_power_pct", "sp_oil_ml_per_kwh",
      "coal_sources", "reasons_breakup", "raw_text_excerpt">>

Columns == {Header[i] : i \in 1..Len(Header)}

\* to_csv writes a str as it is, a number by its repr and a missing value as
\* the empty string (na_rep = "").
TextOf(v) ==
    CASE v.k = "str" -> [tk |-> v.tk, s |-> v.s, n |-> v.n, j |-> v.j]
      [] v.k = "float" -> FloatText(v.n)
      [] v.k = "int" -> IntText(v.n)
      [] OTHER -> LitText("")

\* read_csv's default na_values (keep_default_na = True); the empty field is one.
NaStrings == {"", "NA", "N/A", "NaN", "nan", "null", "NULL", "n/a", "#N/A", "<NA>", "None"}

\* Literal texts that the C parser reads as an integer, with the integer.
NumericLiterals == [s \in {"007"} |-> 7]

IsNaText(t) == t.tk = "lit" /\ t.j = <<>> /\ t.s \in NaStrings
IsIntText(t) == t.tk = "int" \/ (t.tk = "lit" /\ t.j = <<>> /\ t.s \in DOMAIN NumericLiterals)
IsNumText(t) == IsIntText(t) \/ t.tk = "float"

IntOfText(t) == IF t.tk = "int" THEN t.n ELSE NumericLiterals[t.s]

\* Column type inference of read_csv: int64 when every field is an integer,
\* float64 when every field is a number or missing, object otherwise.
ColumnKind(rows, c) ==
    LET cells == {rows[i][c] : i \in 1..Len(rows)}
    IN  IF \A t \in cells : IsIntText(t) THEN "int64"
        ELSE IF \A t \in cells : IsNumText(t) \/ IsNaText(t) THEN "float64"
        ELSE "object"

ParseCell(kind, t) ==
    CASE IsNaText(t) -> NaN
      [] kind = "int64" -> IntV(IntOfText(t))
      [] kind = "float64" -> IF IsIntText(t) THEN Flt(10 * IntOfText(t)) ELSE Flt(t.n)
      [] OTHER -> StrOf(t)

ReadCsv(rows) ==
    [i \in 1..Len(rows) |-> [c \in Columns |-> ParseCell(ColumnKind(rows, c), rows[i][c])]]

ToCsv(frame) ==
    [i \in 1..Len(frame) |-> [c \in Columns |-> TextOf(frame[i][c])]]

\* pd.concat([existing, df_row], ignore_index=True): the values are kept, the
\* column becomes object where the dtypes differ.
Concat(frame, row) == Append(frame, row)

(***************************************************************************)
(* Sub-tables: DataFrame.to_json(orient="records") and pandas.read_json.   *)
(* An entry of a JSON text holds scalars: a number, null or a string.      *)
(***************************************************************************)
JNull == [tk |-> "null", s |-> "", n |-> 0, j |-> <<>>]

\* A missing value (None or NaN) is written as null.
JsonScalar(v) ==
    CASE v.k = "float" -> FloatText(v.n)
      [] v.k = "int" -> IntText(v.n)
      [] v.k = "str" -> TextOf(v)
      [] OTHER -> JNull

to_json(frame) ==
    JsonText([i \in 1..Len(frame) |-> [f \in DOMAIN frame[i] |-> JsonScalar(frame[i][f])]])

\* read_json: a column of numbers and nulls becomes float64 with NaN for null;
\* in a column that holds a string, null stays None.
JsonColumnIsNumeric(entries, f) ==
    \A i \in 1..Len(entries) : entries[i][f].tk \in {"float", "int", "null"}

FromJsonScalar(numeric, t) ==
    CASE t.tk = "float" -> Flt(t.n)
      [] t.tk = "int" -> Flt(10 * t.n)
      [] t.tk = "null" -> IF numeric THEN NaN ELSE None
      [] OTHER -> StrOf(t)

read_json(t) ==
    [i \in 1..Len(t.j) |->
        [f \in DOMAIN t.j[i] |-> FromJsonScalar(JsonColumnIsNumeric(t.j, f), t.j[i][f])]]

(***************************************************************************)
(* What an upload yields: the four extractors' results and the raw text.   *)
(***************************************************************************)
VcFields == {"merc_order", "recoverable_mod", "actual", "disallowance_rs_cr", "unrecoverable_rpkwh"}
SpFields == {"allowable", "actual"}

CoalEntry(name, gcv, landed, eff, pct) ==
    [name |-> Str(name), GCV_ARB |-> gcv, Landed_RsPerMT |-> landed,
     Eff_RsPerMkcal |-> eff, Pct_share |-> pct]

ReasonEntry(reason, amt) == [reason |-> Str(reason), amount_rs_cr |-> amt]

NoUpload ==
    [uploaded |-> FALSE, vc |-> [f \in VcFields |-> None], spcoal |-> [f \in SpFields |-> None],
     coal_sources |-> <<>>, reasons |-> <<>>, raw_text |-> ""]

\* Every field found; the second coal row has two numbers only.
DraftFull ==
    [uploaded |-> TRUE,
     vc |-> [f \in VcFields |-> Flt(CASE f = "merc_order" -> 35 [] f = "recoverable_mod" -> 34
                                      [] f = "actual" -> 31 [] f = "disallowance_rs_cr" -> 125
                                      [] OTHER -> 4)],
     spcoal |-> [f \in SpFields |-> Flt(IF f = "allowable" THEN 6 ELSE 7)],
     coal_sources |-> <<CoalEntry("Adani", Flt(38500), Flt(42005), Flt(12), Flt(183)),
                        CoalEntry("WCL", Flt(41000), Flt(39000), None, None)>>,
     reasons |-> <<ReasonEntry("Stack", Flt(21))>>,
     raw_text |-> "KTPS 10-day report"]

\* No pattern matched anything.
DraftNone ==
    [uploaded |-> TRUE, vc |-> [f \in VcFields |-> None], spcoal |-> [f \in SpFields |-> None],
     coal_sources |-> <<>>, reasons |-> <<>>, raw_text |-> "Kota TPS"]

\* The report states a disallowance of 0; the MERC figure was not found.
DraftPartial ==
    [uploaded |-> TRUE,
     vc |-> [f \in VcFields |-> CASE f = "merc_order" -> None [] f = "disallowance_rs_cr" -> Flt(0)
                                  [] OTHER -> Flt(33)],
     spcoal |-> [f \in SpFields |-> IF f = "allowable" THEN Flt(6) ELSE None],
     coal_sources |-> <<CoalEntry("Adani", Flt(38500), None, None, None)>>,
     reasons |-> <<ReasonEntry("Stack loss", None)>>,
     raw_text |-> "KTPS 10-day report"]

Drafts == {DraftFull, DraftNone, DraftPartial}

(***************************************************************************)
(* The review form and the record it is saved as.                          *)
(***************************************************************************)
NumericColumns ==
    {"vc_merc_order", "vc_recoverable_mod", "vc_actual", "vc_unrecoverable_rpkwh",
     "fuel_cost_disallowance_rs_cr", "sp_coal_allowable", "sp_coal_actual",
     "aux_power_pct", "sp_oil_ml_per_kwh"}

\* The extractor result a number_input takes its default from (None where
\* the form has no extractor behind the field).
Extracted(d, c) ==
    CASE c = "vc_merc_order" -> d.vc["merc_order"]
      [] c = "vc_recoverable_mod" -> d.vc["recoverable_mod"]
      [] c = "vc_actual" -> d.vc["actual"]
      [] c = "vc_unrecoverable_rpkwh" -> d.vc["unrecoverable_rpkwh"]
      [] c = "fuel_cost_disallowance_rs_cr" -> d.vc["disallowance_rs_cr"]
      [] c = "sp_coal_allowable" -> d.spcoal["allowable"]
      [] c = "sp_coal_actual" -> d.spcoal["actual"]
      [] OTHER -> None

\* st.number_input(..., value=float(x or 0.0)): the value the widget holds
\* until the reviewer types another.
number_input(d, c) == OrZero(Extracted(d, c))

\* The reviewer's change: none, or one numeric field typed over.
NoEdit == [column |-> "", value |-> 0]
MercEdit == [column |-> "vc_merc_order", value |-> 36]

Reviewed(d, edit, c) == IF edit.column = c THEN Flt(edit.value) ELSE number_input(d, c)

BuildRecord(station, period, date, d, edit) ==
    [c \in Columns |->
        CASE c = "station" -> Str(station)
          [] c = "period_label" -> Str(period)
          [] c = "report_date" -> Str(date)
          [] c = "coal_sources" -> StrOf(to_json(d.coal_sources))
          [] c = "reasons_breakup" -> StrOf(to_json(d.reasons))
          [] c = "raw_text_excerpt" -> Str(d.raw_text)
          [] OTHER -> Reviewed(d, edit, c)]

\* What the reviewer leaves in the form when pressing save: every widget at
\* its default, or a station, a period label, a date and a figure typed in.
Reviews ==
    {[station |-> "KTPS", period |-> "", date |-> "2025-10-05", edit |-> NoEdit],
     [station |-> "007", period |-> "11-20 Oct 2025", date |-> "2025-10-15", edit |-> MercEdit]}

(***************************************************************************)
(* The Google Sheets helper.  What the environment does to one call is an  *)
(* input: the library is missing, the secrets are missing, the transport   *)
(* fails, the API rejects the request, or the row is appended.             *)
(***************************************************************************)
USE_GSHEETS == TRUE

RemoteEnvs == {"not_installed", "secrets_missing", "transport_error", "api_rejected", "ok"}

GSPREAD_AVAILABLE(env) == env # "not_installed"

HeaderRow == [c \in Columns |-> LitText(c)]

\* row = [str(record.get(c, "")) for c in header]
SheetRow(record) == [c \in Columns |-> TextOf(record[c])]

\* The sheet after a successful call: the header is inserted when row 1 has
\* fewer than three values.
SheetAppend(sh, record) ==
    Append(IF sh = <<>> THEN <<HeaderRow>> ELSE sh, SheetRow(record))

\* The helper with the API's rejection swallowed: it reports the row appended.
gsheet_append_row_swallowing(record, env) ==
    IF env \in {"ok", "api_rejected"}
    THEN [ok |-> TRUE, message |-> "Appended to Google Sheet"]
    ELSE [ok |-> FALSE, message |-> "remote append failed"]

gsheet_append_row(record, env) ==
    CASE env = "not_installed" ->
            [ok |-> FALSE, message |-> "gspread/google-auth not installed"]
      [] env = "secrets_missing" ->
            [ok |-> FALSE,
             message |-> "gcp_service_account or gspread_sheet_id missing in Streamlit secrets"]
      [] env = "transport_error" -> [ok |-> FALSE, message |-> "ConnectionError"]
      [] env = "api_rejected" -> [ok |-> FALSE, message |-> "APIError"]
      [] OTHER -> [ok |-> TRUE, message |-> "Appended to Google Sheet"]

\* appended_sheet = False, sheet_msg = "" (lines 244-245).
NoRemote == [ok |-> FALSE, message |-> ""]

\* Lines 244-248: the helper is called only when the library was imported.
RemoteAttempt(record, env) ==
    IF USE_GSHEETS /\ GSPREAD_AVAILABLE(env)
    THEN gsheet_append_row(record, env)
    ELSE NoRemote

(***************************************************************************)
(* The local store: whether the file exists and the rows after its header. *)
(***************************************************************************)
NoFile == [exists |-> FALSE, rows |-> <<>>]
FileOf(rows) == [exists |-> TRUE, rows |-> rows]

\* Lines 251-257: the rows to_csv writes, given the frame read (or no file).
WriteBack(fileExists, frame, record) ==
    IF fileExists THEN ToCsv(Concat(frame, record)) ELSE ToCsv(<<record>>)

LocalAppend(file, record) ==
    FileOf(WriteBack(file.exists, ReadCsv(file.rows), record))

NoMessage == [kind |-> "none", text |-> "", detail |-> ""]

\* Lines 259-262.
SaveMessage(remote) ==
    IF remote.ok
    THEN [kind |-> "success", text |-> "Record appended to Google Sheet AND local CSV.",
          detail |-> ""]
    ELSE [kind |-> "warning",
          text |-> "Record appended to local CSV. Google Sheets append not completed: ",
          detail |-> remote.message]

\* Lines 266-269: the frame the dashboard works on.
DashboardFrame(file) == IF file.exists THEN ReadCsv(file.rows) ELSE <<>>

(***************************************************************************)
(* The script runs of one session, one at a time.                          *)
(***************************************************************************)
\* The row of the file a record is written as.
AsWritten(record) == [c \in Columns |-> TextOf(record[c])]

Sessions == {1, 2}
NoRecord == [record |-> [c \in Columns |-> None], remote |-> NoRemote]
NothingRead == [exists |-> FALSE, frame |-> <<>>]

\* The variables of the two-session runs, at rest.
SessionsIdle ==
    /\ base = NoFile
    /\ pc = [s \in Sessions |-> "idle"]
    /\ rec = [s \in Sessions |-> NoRecord]
    /\ existing = [s \in Sessions |-> NothingRead]
    /\ reported = [s \in Sessions |-> NoMessage]
    /\ order = <<>>

\* The variables of the extractor and dashboard runs, at rest.
NothingParsed ==
    /\ text = <<>>
    /\ parsed = <<>>
    /\ view = <<>>

OtherInit == SessionsIdle /\ NothingParsed

Init ==
    /\ csv = NoFile
    /\ sheet = <<>>
    /\ draft = NoUpload
    /\ msg = NoMessage
    /\ df = <<>>
    /\ saved = <<>>
    /\ OtherInit

\* The file uploader holds a document: the script parses it and shows the form.
Upload(d) ==
    /\ draft' = d
    /\ msg' = NoMessage
    /\ df' = DashboardFrame(csv)
    /\ UNCHANGED <<csv, sheet, saved, base, pc, rec, existing, reported, order, text, parsed, view>>

\* The reviewer removes the document from the uploader.
RemoveUpload ==
    /\ draft.uploaded
    /\ draft' = NoUpload
    /\ msg' = NoMessage
    /\ df' = DashboardFrame(csv)
    /\ UNCHANGED <<csv, sheet, saved, base, pc, rec, existing, reported, order, text, parsed, view>>

\* "Save / Append this 10-day record" is pressed: lines 224-262, then the
\* dashboard of the same script run.
Save(review, env) ==
    /\ draft.uploaded
    /\ Len(saved) < MaxSaves
    /\ LET record == BuildRecord(review.station, review.period, review.date, draft, review.edit)
           remote == RemoteAttempt(record, env)
       IN  /\ sheet' = IF remote.ok THEN SheetAppend(sheet, record) ELSE sheet
           /\ csv' = LocalAppend(csv, record)
           /\ msg' = SaveMessage(remote)
           /\ saved' = Append(saved, [record |-> record, draft |-> draft,
                                      edit |-> review.edit, env |-> env])
    /\ df' = DashboardFrame(csv')
    /\ UNCHANGED <<draft, base, pc, rec, existing, reported, order, text, parsed, view>>

Next ==
    \/ \E d \in Drafts : Upload(d)
    \/ RemoveUpload
    \/ \E review \in Reviews, env \in RemoteEnvs : Save(review, env)

Spec == Init /\ [][Next]_vars

(***************************************************************************)
(* Two sessions pressing save at once.  Each runs lines 224-262 in its own *)
(* script thread: the record is built and the remote append attempted,     *)
(* then the whole file is read (line 253), then the whole file is written  *)
(* (line 255 or 257) and the message shown.  read_csv and to_csv are each  *)
(* taken as one step.                                                      *)
(***************************************************************************)
\* The records the two sessions save.
SessionRecords ==
    {BuildRecord("KTPS", "01-10 Oct 2025", "2025-10-05", DraftFull, NoEdit),
     BuildRecord("KTPS", "11-20 Oct 2025", "2025-10-15", DraftPartial, MercEdit)}

\* Stores that saves made one at a time leave behind.
BaseStores ==
    LET r0 == BuildRecord("KTPS", "21-30 Sep 2025", "2025-09-25", DraftFull, NoEdit)
        r1 == BuildRecord("007", "11-20 Sep 2025", "2025-09-15", DraftNone, NoEdit)
    IN  {NoFile, LocalAppend(NoFile, r0), LocalAppend(LocalAppend(NoFile, r1), r0)}

\* A write that appends to the file as it is when written.
SessionWritesAppending(file, snapshot, record) == LocalAppend(file, record)

\* What a session's to_csv leaves in the file: the frame it read, plus its
\* row; the file's content at the time of writing plays no part.
SessionWrites(file, snapshot, record) ==
    FileOf(WriteBack(snapshot.exists, snapshot.frame, record))

InitConc ==
    /\ csv \in BaseStores
    /\ base = csv
    /\ pc = [s \in Sessions |-> "idle"]
    /\ rec = [s \in Sessions |-> NoRecord]
    /\ existing = [s \in Sessions |-> NothingRead]
    /\ reported = [s \in Sessions |-> NoMessage]
    /\ order = <<>>
    /\ sheet = <<>>
    /\ draft = NoUpload
    /\ msg = NoMessage
    /\ df = <<>>
    /\ saved = <<>>
    /\ NothingParsed

\* Lines 224-248: the button is pressed, the record built, the sheet tried.
Press(s, record, env) ==
    /\ pc[s] = "idle"
    /\ LET remote == RemoteAttempt(record, env)
       IN  /\ sheet' = IF remote.ok THEN SheetAppend(sheet, record) ELSE sheet
           /\ rec' = [rec EXCEPT ![s] = [record |-> record, remote |-> remote]]
    /\ pc' = [pc EXCEPT ![s] = "read"]
    /\ UNCHANGED <<csv, draft, msg, df, saved, base, existing, reported, order, text, parsed,
                   view>>

\* Lines 252-253: os.path.exists and read_csv.
SessionRead(s) ==
    /\ pc[s] = "read"
    /\ existing' = [existing EXCEPT
                      ![s] = [exists |-> csv.exists, frame |-> ReadCsv(csv.rows)]]
    /\ order' = Append(order, [op |-> "read", s |-> s])
    /\ pc' = [pc EXCEPT ![s] = "write"]
    /\ UNCHANGED <<csv, sheet, draft, msg, df, saved, base, rec, reported, text, parsed, view>>

\* Lines 254-262: concat, to_csv and the message.
SessionWrite(s) ==
    /\ pc[s] = "write"
    /\ csv' = SessionWrites(csv, existing[s], rec[s].record)
    /\ reported' = [reported EXCEPT ![s] = SaveMessage(rec[s].remote)]
    /\ order' = Append(order, [op |-> "write", s |-> s])
    /\ pc' = [pc EXCEPT ![s] = "done"]
    /\ UNCHANGED <<sheet, draft, msg, df, saved, base, rec, existing, text, parsed, view>>

NextConc ==
    \/ \E s \in Sessions, record \in SessionRecords, env \in RemoteEnvs : Press(s, record, env)
    \/ \E s \in Sessions : SessionRead(s)
    \/ \E s \in Sessions : SessionWrite(s)

SpecConc == InitConc /\ [][NextConc]_vars

(***************************************************************************)
(* The dashboard: the monthly aggregates (lines 286-295), the coal-source  *)
(* roll-up of the selected month (297-328) and the reasons roll-up         *)
(* (330-347).  A float result is the fraction sum/count; NaN and None are  *)
(* results of their own.                                                   *)
(***************************************************************************)
MaxRows == 3

\* report_date.dt.to_period('M') for the dates of the model.
MonthOf ==
    [d \in {"2025-09-15", "2025-09-25", "2025-10-05", "2025-10-15", "2025-11-05"} |->
        CASE d \in {"2025-09-15", "2025-09-25"} -> "2025-09"
          [] d \in {"2025-10-05", "2025-10-15"} -> "2025-10"
          [] OTHER -> "2025-11"]

\* The month of a row; a missing date has none and falls in no group.
Month(row) ==
    IF row["report_date"].k = "str" /\ row["report_date"].s \in DOMAIN MonthOf
    THEN MonthOf[row["report_date"].s]
    ELSE "NaT"

Months(frame) == {Month(frame[i]) : i \in 1..Len(frame)} \ {"NaT"}

Frac(sum, count) == [k |-> "float", sum |-> sum, count |-> count]
FNaN == [k |-> "nan", sum |-> 0, count |-> 0]
FNone == [k |-> "none", sum |-> 0, count |-> 0]

\* The number in a numeric cell, in tenths.
Tenths(v) == IF v.k = "int" THEN 10 * v.n ELSE v.n

\* A cell entered with null taken as zero.
CountedWithNulls(v) == TRUE

\* Whether a cell enters a group's sum or mean (skipna): NaN does not.
Counted(v) == v.k \in {"float", "int"}

\* The running total and count of column c over the rows 1..i of month m.
RECURSIVE GroupTotal(_, _, _, _)
GroupTotal(frame, m, c, i) ==
    IF i = 0 THEN [sum |-> 0, count |-> 0]
    ELSE LET rest == GroupTotal(frame, m, c, i - 1)
         IN  IF Month(frame[i]) = m /\ Counted(frame[i][c])
             THEN [sum |-> rest.sum + Tenths(frame[i][c]), count |-> rest.count + 1]
             ELSE rest

\* ("column", "sum"): the sum of an empty group is 0.
GroupSum(frame, m, c) == Frac(GroupTotal(frame, m, c, Len(frame)).sum, 1)

\* ("column", "mean"): the mean of an empty group is NaN.
GroupMean(frame, m, c) ==
    LET t == GroupTotal(frame, m, c, Len(frame))
    IN  IF t.count = 0 THEN FNaN ELSE Frac(t.sum, t.count)

MonthlyAgg(frame) ==
    [m \in Months(frame) |->
        [total_disallowance_rs_cr |-> GroupSum(frame, m, "fuel_cost_disallowance_rs_cr"),
         avg_vc_mer |-> GroupMean(frame, m, "vc_merc_order"),
         avg_vc_actual |-> GroupMean(frame, m, "vc_actual"),
         avg_sp_coal_actual |-> GroupMean(frame, m, "sp_coal_actual"),
         avg_aux_power |-> GroupMean(frame, m, "aux_power_pct")]]

\* str.strip() on the names of the model.
Strip(s) == IF s = "Adani " THEN "Adani" ELSE s

\* bool(x) of a cell: None, 0.0 and "" are falsy, NaN is truthy.
Truthy(v) ==
    CASE v.k = "none" -> FALSE
      [] v.k \in {"float", "int"} -> v.n # 0
      [] v.k = "str" -> ~(v.tk = "lit" /\ v.s = "" /\ v.j = <<>>)
      [] OTHER -> TRUE

\* str(x or "").strip() (lines 305 and 336).
NameOf(v) ==
    CASE ~Truthy(v) -> ""
      [] v.k = "str" /\ v.tk = "lit" -> Strip(v.s)
      [] v.k = "nan" -> "nan"
      [] OTHER -> "number"

\* float(x): a non-numeric str raises.
FloatRaises(v) == v.k = "str" /\ v.tk = "lit"

\* float addition: NaN absorbs.
FAdd(a, b) == IF a.k = "nan" \/ b.k = "nan" THEN FNaN ELSE Frac(a.sum + b.sum, 1)
FloatOf(v) == IF v.k = "nan" THEN FNaN ELSE Frac(Tenths(v), 1)

\* Whether pd.read_json raises on a cell (caught at lines 318 and 342: the
\* record is skipped).
JsonRaises(v) == ~(v.k = "str" /\ v.tk = "lit" /\ v.s = "json")

\* series.dropna(), then the entries of every record whose JSON parses, in
\* row order.
RECURSIVE SubTableEntries(_, _, _)
SubTableEntries(frame, c, i) ==
    IF i = 0 THEN <<>>
    ELSE LET v == frame[i][c]
         IN  SubTableEntries(frame, c, i - 1) \o
                (IF v.k = "nan" \/ JsonRaises(v) THEN <<>> ELSE read_json(TextOf(v)))

Field(entry, f) == IF f \in DOMAIN entry THEN entry[f] ELSE None

\* Lines 304-317 over the entries 1..i: combined[name] for one name.
RECURSIVE Combined(_, _, _)
Combined(entries, name, i) ==
    IF i = 0 THEN [count |-> 0, effs |-> <<>>, pct |-> Frac(0, 1)]
    ELSE LET rest == Combined(entries, name, i - 1)
             eff == Field(entries[i], "Eff_RsPerMkcal")
             pct == Field(entries[i], "Pct_share")
         IN  IF NameOf(Field(entries[i], "name")) # name THEN rest
             ELSE [count |-> rest.count + 1,
                   effs |-> IF Truthy(eff) /\ ~FloatRaises(eff)
                            THEN Append(rest.effs, FloatOf(eff)) ELSE rest.effs,
                   pct |-> IF Truthy(pct) /\ ~FloatRaises(pct)
                           THEN FAdd(rest.pct, FloatOf(pct)) ELSE rest.pct]

RECURSIVE SumFloats(_, _)
SumFloats(fs, i) == IF i = 0 THEN Frac(0, 1) ELSE FAdd(SumFloats(fs, i - 1), fs[i])

\* sum(effs)/len(effs) if effs else None (line 322).
AvgEff(effs) ==
    IF effs = <<>> THEN FNone
    ELSE LET t == SumFloats(effs, Len(effs))
         IN  IF t.k = "nan" THEN FNaN ELSE Frac(t.sum, Len(effs))

SelectedRows(frame, month_sel) ==
    SelectSeq(frame, LAMBDA row : Month(row) = month_sel)

CoalRollup(frame, month_sel) ==
    LET entries == SubTableEntries(SelectedRows(frame, month_sel), "coal_sources",
                                   Len(SelectedRows(frame, month_sel)))
        names == {NameOf(Field(entries[i], "name")) : i \in 1..Len(entries)} \ {""}
    IN  [name \in names |->
            LET v == Combined(entries, name, Len(entries))
            IN  [appearances |-> v.count, avg_eff_rs_per_mkcal |-> AvgEff(v.effs),
                 total_pct_share |-> v.pct]]

\* float(amt) if pd.notna(amt) else 0.0; 0.0 when float raises (lines 337-339).
AmountOf(v) == IF v.k \in {"float", "int"} THEN Tenths(v) ELSE 0

RECURSIVE ReasonTotal(_, _, _)
ReasonTotal(entries, rn, i) ==
    IF i = 0 THEN 0
    ELSE ReasonTotal(entries, rn, i - 1) +
            (IF NameOf(Field(entries[i], "reason")) = rn
             THEN AmountOf(Field(entries[i], "amount_rs_cr")) ELSE 0)

ReasonsRollup(frame) ==
    LET entries == SubTableEntries(frame, "reasons_breakup", Len(frame))
        names == {NameOf(Field(entries[i], "reason")) : i \in 1..Len(entries)}
    IN  [rn \in names |-> Frac(ReasonTotal(entries, rn, Len(entries)), 1)]

(***************************************************************************)
(* The stored tables the dashboard is run on.                              *)
(***************************************************************************)
JAdani == [name |-> LitText("Adani"), GCV_ARB |-> FloatText(38500), Landed_RsPerMT |-> FloatText(42005),
           Eff_RsPerMkcal |-> FloatText(12), Pct_share |-> FloatText(183)]
JAdaniShort == [JAdani EXCEPT !.Eff_RsPerMkcal = JNull, !.Pct_share = JNull]
JAdaniSpaced == [JAdani EXCEPT !.name = LitText("Adani "), !.Eff_RsPerMkcal = FloatText(20),
                                !.Pct_share = FloatText(100)]
JWclFree == [JAdani EXCEPT !.name = LitText("WCL"), !.Eff_RsPerMkcal = FloatText(0)]

\* The coal_sources cell of a stored row: JSON texts, a text that is not
\* JSON, and the empty field.
CoalCells ==
    {JsonText(<<>>), JsonText(<<JAdani>>), JsonText(<<JAdani, JAdaniShort>>),
     JsonText(<<JAdaniSpaced, JWclFree>>), LitText("{"), LitText("")}

ReasonsCell == JsonText(<<[reason |-> LitText("Stack"), amount_rs_cr |-> FloatText(21)],
                          [reason |-> LitText("Stack loss"), amount_rs_cr |-> JNull]>>)

StoredRow(date, period, actual, disallowance, coal) ==
    [c \in Columns |->
        CASE c = "station" -> LitText("KTPS")
          [] c = "period_label" -> LitText(period)
          [] c = "report_date" -> LitText(date)
          [] c = "vc_actual" -> actual
          [] c = "vc_merc_order" -> disallowance
          [] c = "fuel_cost_disallowance_rs_cr" -> disallowance
          [] c = "sp_coal_actual" -> actual
          [] c = "coal_sources" -> coal
          [] c = "reasons_breakup" -> ReasonsCell
          [] c = "raw_text_excerpt" -> LitText("KTPS 10-day report")
          [] OTHER -> FloatText(0)]

\* Rows that differ in their figures (a figure is a float or the empty field).
FigureRows ==
    {StoredRow(date, IF actual = FloatText(33) THEN "11-20" ELSE "01-10", actual, dis,
               JsonText(<<>>)) :
        date \in {"2025-10-05", "2025-11-05"},
        actual \in {FloatText(31), FloatText(33), LitText("")},
        dis \in {FloatText(125), LitText("")}}

\* Rows that differ in their coal sources.
CoalRows ==
    {StoredRow(date, "01-10", FloatText(31), FloatText(125), coal) :
        date \in {"2025-10-05", "2025-11-05"}, coal \in CoalCells}

Tables(rowSet) == UNION {[1..n -> rowSet] : n \in 0..MaxRows}

InitAgg ==
    /\ csv \in {FileOf(rows) : rows \in Tables(FigureRows) \cup Tables(CoalRows)}
    /\ df = DashboardFrame(csv)
    /\ view = <<>>
    /\ sheet = <<>>
    /\ draft = NoUpload
    /\ msg = NoMessage
    /\ saved = <<>>
    /\ SessionsIdle
    /\ text = <<>>
    /\ parsed = <<>>

\* One run of the dashboard with a month chosen in the selectbox.
Dashboard(month_sel) ==
    /\ view' = <<[month_sel |-> month_sel,
                  agg |-> MonthlyAgg(df),
                  coal |-> CoalRollup(df, month_sel),
                  reasons |-> ReasonsRollup(df)]>>
    /\ UNCHANGED <<csv, sheet, draft, msg, df, saved, base, pc, rec, existing, reported, order,
                   text, parsed>>

NextAgg == \E month_sel \in Months(df) : Dashboard(month_sel)

SpecAgg == InitAgg /\ [][NextAgg]_vars

(***************************************************************************)
(* The field extractors (lines 50-136).  A text is a sequence of           *)
(* characters; a float parsed from the text is kept as the literal it was  *)
(* parsed from, commas removed.  Each regular expression is matched the    *)
(* way re.search matches it: the leftmost start, greedy parts longest      *)
(* first, lazy parts shortest first.                                       *)
(***************************************************************************)
MaxLines == 3

NL == "\n"
TAB == "\t"
Digit == {"0", "1", "2", "3", "4", "5", "6", "7", "8", "9"}
Space == {" ", NL, TAB}
ColonSpace == Space \cup {":"}
DigitDot == Digit \cup {"."}
Upper == <<"A", "B", "C", "D", "E", "F", "G", "H", "I", "J", "K", "L", "M",
           "N", "O", "P", "Q", "R", "S", "T", "U", "V", "W", "X", "Y", "Z">>
Letters == <<"a", "b", "c", "d", "e", "f", "g", "h", "i", "j", "k", "l", "m",
             "n", "o", "p", "q", "r", "s", "t", "u", "v", "w", "x", "y", "z">>

\* str.lower() and re.IGNORECASE.
Lower(c) ==
    IF \E i \in 1..Len(Upper) : Upper[i] = c
    THEN Letters[CHOOSE i \in 1..Len(Upper) : Upper[i] = c]
    ELSE c

Low(s) == [i \in 1..Len(s) |-> Lower(s[i])]

Min(S) == CHOOSE x \in S : \A y \in S : x <= y
Max(S) == CHOOSE x \in S : \A y \in S : x >= y

\* The keyword kw stands in s at position p.
At(s, p, kw) == p + Len(kw) - 1 <= Len(s) /\ \A i \in 1..Len(kw) : s[p + i - 1] = kw[i]
Places(s, kw) == {p \in 1..Len(s) : At(s, p, kw)}
Has(s, kw) == Places(s, kw) # {}

\* The last position of the run of characters of class C that starts at p
\* (p - 1 when s[p] is not in C).
RECURSIVE RunEnd(_, _, _)
RunEnd(s, p, C) == IF p <= Len(s) /\ s[p] \in C THEN RunEnd(s, p + 1, C) ELSE p - 1

\* str.splitlines() and "\n".join().
RECURSIVE SplitLines(_)
SplitLines(s) ==
    IF s = <<>> THEN <<>>
    ELSE LET nls == {i \in 1..Len(s) : s[i] = NL}
         IN  IF nls = {} THEN <<s>>
             ELSE <<SubSeq(s, 1, Min(nls) - 1)>> \o SplitLines(SubSeq(s, Min(nls) + 1, Len(s)))

RECURSIVE JoinLines(_)
JoinLines(lines) ==
    IF lines = <<>> THEN <<>>
    ELSE IF Len(lines) = 1 THEN lines[1]
    ELSE lines[1] \o <<NL>> \o JoinLines(Tail(lines))

\* str.strip().
StripText(s) ==
    LET keep == {i \in 1..Len(s) : s[i] \notin Space}
    IN  IF keep = {} THEN <<>> ELSE SubSeq(s, Min(keep), Max(keep))

PyFloat(lit) == [k |-> "float", lit |-> lit]
PyNone == [k |-> "none", lit |-> <<>>]

NoMatch == [a |-> 0, b |-> 0]

\* -?\d+[\d,]*\.?\d* matched at p: the last position of the match, 0 for none.
NumEnd(s, p) ==
    LET q0 == IF p <= Len(s) /\ s[p] = "-" THEN p + 1 ELSE p
    IN  IF q0 > Len(s) \/ s[q0] \notin Digit THEN 0
        ELSE LET q1 == RunEnd(s, q0, Digit \cup {","})
                 q2 == IF q1 + 1 <= Len(s) /\ s[q1 + 1] = "." THEN q1 + 1 ELSE q1
             IN  RunEnd(s, q2 + 1, Digit)

\* re.search of that pattern in s from position from.
SearchNum(s, from) ==
    LET First(ps) == IF ps = {} THEN NoMatch ELSE [a |-> Min(ps), b |-> NumEnd(s, Min(ps))]
    IN  First({p \in from..Len(s) : NumEnd(s, p) # 0})

\* float(m.group().replace(",", "")): the pattern admits one dot at most and
\* a digit at least, so float never raises on it.
NumLit(s, m) == SelectSeq(SubSeq(s, m.a, m.b), LAMBDA c : c # ",")

\* re.findall of the pattern.
RECURSIVE FindAllNums(_, _)
FindAllNums(s, from) ==
    LET Found(m) == IF m.a = 0 THEN <<>> ELSE <<NumLit(s, m)>> \o FindAllNums(s, m.b + 1)
    IN  Found(SearchNum(s, from))

\* float() of a run of digits and dots raises unless it holds one dot at
\* most and a digit.
FloatRaisesOn(lit) ==
    \/ Cardinality({i \in 1..Len(lit) : lit[i] = "."}) > 1
    \/ \A i \in 1..Len(lit) : lit[i] \notin Digit

NoNewline(s, a, b) == \A i \in a..b : s[i] # NL

\* The keywords of the patterns, in lower case.
Kw ==
    [variable_charge |->
        <<"v", "a", "r", "i", "a", "b", "l", "e", " ", "c", "h", "a", "r", "g", "e">>,
     merc |->
        <<"m", "e", "r", "c">>,
     variable_charge_recoverable |->
        <<"v", "a", "r", "i", "a", "b", "l", "e", " ", "c", "h", "a", "r", "g", "e", " ",
          "(", "r", "e", "c", "o", "v", "e", "r", "a", "b", "l", "e">>,
     recoverable |->
        <<"r", "e", "c", "o", "v", "e", "r", "a", "b", "l", "e">>,
     mod |->
        <<"m", "o", "d">>,
     variable_charge_actual |->
        <<"v", "a", "r", "i", "a", "b", "l", "e", " ", "c", "h", "a", "r", "g", "e", " ",
          "(", "a", "c", "t", "u", "a", "l">>,
     actual_energy_charge |->
        <<"a", "c", "t", "u", "a", "l", " ", "e", "n", "e", "r", "g", "y", " ", "c", "h",
          "a", "r", "g", "e">>,
     disallowance |->
        <<"d", "i", "s", "a", "l", "l", "o", "w", "a", "n", "c", "e">>,
     rs |->
        <<"r", "s">>,
     cr |->
        <<"c", "r">>,
     unrecoverable |->
        <<"u", "n", "r", "e", "c", "o", "v", "e", "r", "a", "b", "l", "e">>,
     rs_slash_kwh |->
        <<"r", "s", "/", "k", "w", "h">>,
     rs_kwh |->
        <<"r", "s", "k", "w", "h">>,
     actual |->
        <<"a", "c", "t", "u", "a", "l">>,
     allowable |->
        <<"a", "l", "l", "o", "w", "a", "b", "l", "e">>,
     norm |->
        <<"n", "o", "r", "m">>,
     allowable_as_per_merc_norm |->
        <<"a", "l", "l", "o", "w", "a", "b", "l", "e", " ", "a", "s", " ", "p", "e", "r",
          " ", "m", "e", "r", "c", " ", "n", "o", "r", "m">>,
     sp_coal_consumption |->
        <<"s", "p", " ", "c", "o", "a", "l", " ", "c", "o", "n", "s", "u", "m", "p", "t",
          "i", "o", "n">>,
     coal_source |->
        <<"c", "o", "a", "l", " ", "s", "o", "u", "r", "c", "e">>,
     gcv |->
        <<"g", "c", "v">>,
     landed_cost |->
        <<"l", "a", "n", "d", "e", "d", " ", "c", "o", "s", "t">>,
     loss |->
        <<"l", "o", "s", "s">>]

\* rs\/?kwh at p: the length matched, 0 for none.
RsKwhLen(s, p) == IF At(s, p, Kw.rs_slash_kwh) THEN 6 ELSE IF At(s, p, Kw.rs_kwh) THEN 5 ELSE 0

\* [:\s]*([0-9\.\, -]+) after position e: the last position of the group, 0
\* when it cannot match.  The space belongs to both classes: the first
\* gives back what the group needs.
FigureTail(s, e) ==
    LET GroupClass == Digit \cup {".", ",", " ", "-"}
        c == RunEnd(s, e + 1, ColonSpace)
        ks == {k \in e..c : k + 1 <= Len(s) /\ s[k + 1] \in GroupClass}
    IN  IF ks = {} THEN 0 ELSE RunEnd(s, Max(ks) + 1, GroupClass)

\* kws[1].*kws[2].*rs\/?kwh[:\s]*([0-9\.\, -]+), or with one keyword
\* kws[1].*rs\/?kwh[:\s]*(...): the span of the match.  The dot matches no
\* newline; the greedy .* settle on the last rs/kwh the tail matches after.
RsKwhSearch(s, kws) ==
    LET rs == {p \in 1..Len(s) : RsKwhLen(s, p) # 0 /\ FigureTail(s, p + RsKwhLen(s, p) - 1) # 0}
        seconds == IF Len(kws) = 2 THEN Places(s, kws[2]) ELSE {}
        Reach(p) ==
            {p3 \in rs :
                /\ NoNewline(s, p, p3)
                /\ IF Len(kws) = 2
                   THEN \E p2 \in seconds :
                            p + Len(kws[1]) <= p2 /\ p2 + Len(kws[2]) <= p3
                   ELSE p + Len(kws[1]) <= p3}
        Span(p, p3) == [a |-> p, b |-> FigureTail(s, p3 + RsKwhLen(s, p3) - 1)]
        Leftmost(starts) ==
            IF starts = {} THEN NoMatch ELSE Span(Min(starts), Max(Reach(Min(starts))))
    IN  Leftmost({p \in Places(s, kws[1]) : Reach(p) # {}})

\* [:\s]*([0-9\.]+) after position e.
DigitsTail(s, e) ==
    LET c == RunEnd(s, e + 1, ColonSpace)
    IN  IF c + 1 <= Len(s) /\ s[c + 1] \in DigitDot THEN RunEnd(s, c + 1, DigitDot) ELSE 0

\* allowable.*norm[:\s]*([0-9\.]+)
AllowableNormSearch(s) ==
    LET norms == {p \in Places(s, Kw.norm) : DigitsTail(s, p + Len(Kw.norm) - 1) # 0}
        Reach(p) == {p2 \in norms : p + Len(Kw.allowable) <= p2 /\ NoNewline(s, p, p2)}
        Leftmost(starts) ==
            IF starts = {} THEN NoMatch
            ELSE [a |-> Min(starts),
                  b |-> DigitsTail(s, Max(Reach(Min(starts))) + Len(Kw.norm) - 1)]
    IN  Leftmost({p \in Places(s, Kw.allowable) : Reach(p) # {}})

\* allowable as per merc norm[:\s]*([0-9\.]+)
MercNormSearch(s) ==
    LET End(p) == DigitsTail(s, p + Len(Kw.allowable_as_per_merc_norm) - 1)
        Leftmost(starts) ==
            IF starts = {} THEN NoMatch ELSE [a |-> Min(starts), b |-> End(Min(starts))]
    IN  Leftmost({p \in Places(s, Kw.allowable_as_per_merc_norm) : End(p) # 0})

\* [:\s]*([0-9]\.[0-9]+) after position e, then \s*$ when toEnd.
DecimalTail(s, e, toEnd) ==
    LET c == RunEnd(s, e + 1, ColonSpace)
    IN  IF /\ c + 3 <= Len(s)
           /\ s[c + 1] \in Digit
           /\ s[c + 2] = "."
           /\ s[c + 3] \in Digit
           /\ toEnd => RunEnd(s, RunEnd(s, c + 3, Digit) + 1, Space) = Len(s)
        THEN RunEnd(s, c + 3, Digit)
        ELSE 0

\* actual[:\s]*([0-9]\.[0-9]+)\s*$ and actual[:\s]*([0-9]\.[0-9]+)
ActualSearch(s, toEnd) ==
    LET End(p) == DecimalTail(s, p + Len(Kw.actual) - 1, toEnd)
        Leftmost(starts) ==
            IF starts = {} THEN NoMatch ELSE [a |-> Min(starts), b |-> End(Min(starts))]
    IN  Leftmost({p \in Places(s, Kw.actual) : End(p) # 0})

\* re.search(pat, text, re.IGNORECASE) for the patterns find_first_float is
\* called with.
Search(pat, s) ==
    CASE pat = "vc_merc" -> RsKwhSearch(s, <<Kw.variable_charge, Kw.merc>>)
      [] pat = "vc_recoverable" -> RsKwhSearch(s, <<Kw.variable_charge, Kw.recoverable>>)
      [] pat = "vc_actual" -> RsKwhSearch(s, <<Kw.variable_charge, Kw.actual>>)
      [] pat = "actual_energy_charge" -> RsKwhSearch(s, <<Kw.actual_energy_charge>>)
      [] pat = "allowable_norm" -> AllowableNormSearch(s)
      [] pat = "allowable_merc_norm" -> MercNormSearch(s)
      [] pat = "actual_at_end" -> ActualSearch(s, TRUE)
      [] OTHER -> ActualSearch(s, FALSE)

\* Lines 50-57: the first pattern that matches and whose match holds a number.
RECURSIVE find_first_float(_, _)
find_first_float(patterns, txt) ==
    IF patterns = <<>> THEN PyNone
    ELSE LET Number(span, num) ==
                 IF num.a # 0 THEN PyFloat(NumLit(span, num))
                 ELSE find_first_float(Tail(patterns), txt)
             Matched(m) ==
                 IF m.a # 0 THEN Number(SubSeq(txt, m.a, m.b), SearchNum(SubSeq(txt, m.a, m.b), 1))
                 ELSE find_first_float(Tail(patterns), txt)
         IN  Matched(Search(patterns[1], Low(txt)))

\* The keyword rule of each variable-charge field (lines 65-77).
LineRule(f, low) ==
    CASE f = "merc_order" -> Has(low, Kw.variable_charge) /\ Has(low, Kw.merc)
      [] f = "recoverable_mod" ->
            Has(low, Kw.variable_charge_recoverable) \/ (Has(low, Kw.recoverable) /\ Has(low, Kw.mod))
      [] f = "actual" -> Has(low, Kw.variable_charge_actual) \/ Has(low, Kw.actual_energy_charge)
      [] f = "disallowance_rs_cr" -> Has(low, Kw.disallowance) /\ Has(low, Kw.rs)
      [] OTHER -> Has(low, Kw.unrecoverable)

\* The dict after the loop over lines 1..i (lines 63-79): the loop has no
\* break, so every line that satisfies a rule and holds a number assigns.
RECURSIVE VcAfterLines(_, _)
VcAfterLines(lines, i) ==
    LET Assigned(prev, line, m) ==
            [f \in VcFields |->
                IF LineRule(f, Low(line)) /\ m.a # 0 THEN PyFloat(NumLit(line, m)) ELSE prev[f]]
    IN  IF i = 0 THEN [f \in VcFields |-> PyNone]
        ELSE Assigned(VcAfterLines(lines, i - 1), lines[i], SearchNum(lines[i], 1))

\* disallowance\s*rs[\. ]*cr[:\s]*(-?\d+[\d,]*\.?\d*) (line 88): group 1.
DisallowanceSearch(s) ==
    LET NumberAt(p) ==
            LET w == RunEnd(s, p + Len(Kw.disallowance), Space)
                d == RunEnd(s, w + 3, {".", " "})
                c == RunEnd(s, d + 3, ColonSpace)
            IN  IF At(s, w + 1, Kw.rs) /\ At(s, d + 1, Kw.cr) /\ NumEnd(s, c + 1) # 0
                THEN [a |-> c + 1, b |-> NumEnd(s, c + 1)]
                ELSE NoMatch
        Leftmost(starts) == IF starts = {} THEN NoMatch ELSE NumberAt(Min(starts))
    IN  Leftmost({p \in Places(s, Kw.disallowance) : NumberAt(p).a # 0})

\* Lines 80-90: a fallback is tried for a field the loop left None.
VcFallback(f, txt) ==
    LET Group(m) == IF m.a # 0 THEN PyFloat(NumLit(txt, m)) ELSE PyNone
    IN  CASE f = "merc_order" -> find_first_float(<<"vc_merc">>, txt)
          [] f = "recoverable_mod" -> find_first_float(<<"vc_recoverable">>, txt)
          [] f = "actual" -> find_first_float(<<"vc_actual", "actual_energy_charge">>, txt)
          [] f = "disallowance_rs_cr" -> Group(DisallowanceSearch(Low(txt)))
          [] OTHER -> PyNone

parse_variable_charge(txt) ==
    LET Filled(vc) == [f \in VcFields |-> IF vc[f] = PyNone THEN VcFallback(f, txt) ELSE vc[f]]
        Loop(lines) == VcAfterLines(lines, Len(lines))
    IN  Filled(Loop(SplitLines(txt)))

\* sp coal consumption.*allowable.*actual.*?([\d\.]+).*?([\d\.]+) with
\* re.DOTALL (line 94): the two groups.  After the chosen "actual" the first
\* group is the first run of digits and dots; it gives up its last
\* character when nothing is left for the second group.
SpCoalSearch(s) ==
    LET dd == {i \in 1..Len(s) : s[i] \in DigitDot}
        After(e) == {i \in dd : i > e}
        Splits(q1, r1) == After(r1) # {} \/ r1 > q1
        Works(e) == After(e) # {} /\ Splits(Min(After(e)), RunEnd(s, Min(After(e)), DigitDot))
        Run(q) == [a |-> q, b |-> RunEnd(s, q, DigitDot)]
        Groups(q1, r1) ==
            IF After(r1) # {} THEN <<[a |-> q1, b |-> r1], Run(Min(After(r1)))>>
            ELSE <<[a |-> q1, b |-> r1 - 1], [a |-> r1, b |-> r1]>>
        GroupsFrom(q1) == Groups(q1, RunEnd(s, q1, DigitDot))
        actuals == {p \in Places(s, Kw.actual) : Works(p + Len(Kw.actual) - 1)}
        allowables == Places(s, Kw.allowable)
        Reach(p) ==
            {p3 \in actuals :
                \E p2 \in allowables :
                    p + Len(Kw.sp_coal_consumption) <= p2 /\ p2 + Len(Kw.allowable) <= p3}
        Leftmost(starts) ==
            IF starts = {} THEN <<>>
            ELSE GroupsFrom(Min(After(Max(Reach(Min(starts))) + Len(Kw.actual) - 1)))
    IN  Leftmost({p \in Places(s, Kw.sp_coal_consumption) : Reach(p) # {}})

\* Lines 93-99.  float(m.group(i)) is not guarded: a group such as "." or
\* "1.2.3" raises ValueError out of the function.
parse_sp_coal(txt) ==
    LET Floats(g1, g2) ==
            IF FloatRaisesOn(g1) \/ FloatRaisesOn(g2)
            THEN [raised |-> TRUE, allowable |-> PyNone, actual |-> PyNone]
            ELSE [raised |-> FALSE, allowable |-> PyFloat(g1), actual |-> PyFloat(g2)]
        Result(g) ==
            IF g # <<>>
            THEN Floats(SubSeq(txt, g[1].a, g[1].b), SubSeq(txt, g[2].a, g[2].b))
            ELSE [raised |-> FALSE,
                  allowable |-> find_first_float(<<"allowable_norm", "allowable_merc_norm">>,
                                                 txt),
                  actual |-> find_first_float(<<"actual_at_end", "actual">>, txt)]
    IN  Result(SpCoalSearch(Low(txt)))

CoalLookahead == 200

\* re.sub(r"[-\d\.,\|\t ]+", " ", l).strip(): every run of the class becomes
\* one space.
NameClass == Digit \cup {"-", ".", ",", "|", TAB, " "}
RECURSIVE SubRuns(_, _)
SubRuns(l, p) ==
    IF p > Len(l) THEN <<>>
    ELSE IF l[p] \in NameClass THEN <<" ">> \o SubRuns(l, RunEnd(l, p, NameClass) + 1)
    ELSE <<l[p]>> \o SubRuns(l, p + 1)

SourceName(l) == StripText(SubRuns(l, 1))

\* Lines 112-121 for one data row.
CoalRow(l) ==
    LET Row(nums) ==
            LET Nth(i) == IF Len(nums) >= i THEN PyFloat(nums[i]) ELSE PyNone
            IN  [name |-> SourceName(l), GCV_ARB |-> Nth(1), Landed_RsPerMT |-> Nth(2),
                 Eff_RsPerMkcal |-> Nth(3), Pct_share |-> Nth(4)]
    IN  Row(FindAllNums(l, 1))

IsHeader(l) ==
    Has(Low(l), Kw.coal_source) /\ (Has(Low(l), Kw.gcv) \/ Has(Low(l), Kw.landed_cost))

\* The rows from line i on, up to the first blank line (lines 110-121).
RECURSIVE SourceRows(_, _, _)
SourceRows(lines, i, last) ==
    IF i > Len(lines) \/ i > last \/ StripText(lines[i]) = <<>> THEN <<>>
    ELSE <<CoalRow(lines[i])>> \o SourceRows(lines, i + 1, last)

parse_coal_sources(txt) ==
    LET After(lines, headers) ==
            IF headers = {} THEN <<>>
            ELSE SourceRows(lines, Min(headers) + 1, Min(headers) + CoalLookahead)
        Of(lines) == After(lines, {i \in 1..Len(lines) : IsHeader(lines[i])})
    IN  Of(SplitLines(txt))

\* (?P<title>[\w \-/\(\)\&]+?)\s*(?:Loss|loss)\s*[-\u2013]\s*(?P<amt>-?\d+[\d,]*\.?\d*)\s*rs\.?cr
\* (line 126).
TitleClass ==
    Digit \cup {Letters[i] : i \in 1..Len(Letters)} \cup {"_", " ", "-", "/", "(", ")", "&"}
\* The en dash U+2013 is the one character written "ndash".
Dashes == {"-", "ndash"}

\* \s*loss\s*[-\u2013]\s*amt\s*rs\.?cr after position t: the amount and the end
\* of the match.
LossTail(s, t) ==
    LET NoTail == [amt |-> NoMatch, end |-> 0]
        Unit(y, n, z, dot) ==
            IF n # 0 /\ At(s, z + 1, Kw.rs) /\ At(s, z + 3 + dot, Kw.cr)
            THEN [amt |-> [a |-> y + 1, b |-> n], end |-> z + 4 + dot]
            ELSE NoTail
        AfterAmount(y, n, z) == Unit(y, n, z, IF z + 3 <= Len(s) /\ s[z + 3] = "." THEN 1 ELSE 0)
        Amount(y, n) == AfterAmount(y, n, RunEnd(s, n + 1, Space))
        AfterDash(y) == Amount(y, NumEnd(s, y + 1))
        Dash(w, x) ==
            IF At(s, w + 1, Kw.loss) /\ x + 1 <= Len(s) /\ s[x + 1] \in Dashes
            THEN AfterDash(RunEnd(s, x + 2, Space))
            ELSE NoTail
        Loss(w) == Dash(w, RunEnd(s, w + 1 + Len(Kw.loss), Space))
    IN  Loss(RunEnd(s, t + 1, Space))

\* The match that re.finditer yields next from position from: the leftmost
\* start, and from it the shortest title.
NextReason(s, from) ==
    LET Ends(p) == {t \in p..RunEnd(s, p, TitleClass) : LossTail(s, t).end # 0}
        Leftmost(starts) ==
            IF starts = {} THEN [a |-> 0, t |-> 0]
            ELSE [a |-> Min(starts), t |-> Min(Ends(Min(starts)))]
    IN  Leftmost({p \in from..Len(s) : Ends(p) # {}})

RECURSIVE PrimaryReasons(_, _, _)
PrimaryReasons(txt, low, from) ==
    LET Entry(m, tail) ==
            <<[reason |-> StripText(SubSeq(txt, m.a, m.t)),
               amount_rs_cr |-> PyFloat(NumLit(txt, tail.amt)),
               at |-> tail.amt.a]>>
            \o PrimaryReasons(txt, low, tail.end + 1)
        Matched(m) == IF m.a = 0 THEN <<>> ELSE Entry(m, LossTail(low, m.t))
    IN  Matched(NextReason(low, from))

\* Line 130.
fallback_reasons ==
    <<
      \* Diff in LEQ & ARB GCV
      <<"D", "i", "f", "f", " ", "i", "n", " ", "L", "E", "Q", " ", "&", " ", "A", "R",
        "B", " ", "G", "C", "V">>,
      \* Stack loss
      <<"S", "t", "a", "c", "k", " ", "l", "o", "s", "s">>,
      \* Plant / O&M /Other losses
      <<"P", "l", "a", "n", "t", " ", "/", " ", "O", "&", "M", " ", "/", "O", "t", "h",
        "e", "r", " ", "l", "o", "s", "s", "e", "s">>,
      \* Sp Oil Consn
      <<"S", "p", " ", "O", "i", "l", " ", "C", "o", "n", "s", "n">>,
      \* Aux power consn
      <<"A", "u", "x", " ", "p", "o", "w", "e", "r", " ", "c", "o", "n", "s", "n">>
    >>

\* not any(fr.lower() in r["reason"].lower() for r in reasons) (line 132).
AlreadyFound(fr, reasons) == \E i \in 1..Len(reasons) : Has(Low(reasons[i].reason), Low(fr))

\* fr + r".*?(-?\d+[\d,]*\.?\d*)" with re.DOTALL (line 133): the first
\* number after the first occurrence of the label.
FallbackSearch(fr, txt) == SearchNum(txt, Min(Places(Low(txt), Low(fr))) + Len(fr))

\* Line 134-135: the entry of a label, amount None when no number follows.
FallbackEntry(fr, txt, m) ==
    [reason |-> fr,
     amount_rs_cr |-> IF m.a = 0 THEN PyNone ELSE PyFloat(NumLit(txt, m)),
     at |-> m.a]

\* Lines 131-135 for the labels i.. of fallback_reasons.
RECURSIVE WithFallbacks(_, _, _)
WithFallbacks(txt, reasons, i) ==
    LET Label(fr) ==
            IF Has(Low(txt), Low(fr)) /\ ~AlreadyFound(fr, reasons)
            THEN WithFallbacks(txt,
                               Append(reasons, FallbackEntry(fr, txt, FallbackSearch(fr, txt))),
                               i + 1)
            ELSE WithFallbacks(txt, reasons, i + 1)
    IN  IF i > Len(fallback_reasons) THEN reasons ELSE Label(fallback_reasons[i])

\* The entries, each with the place in the text its amount was read at (0
\* for no amount).
ReasonsWithPlaces(txt) == WithFallbacks(txt, PrimaryReasons(txt, Low(txt), 1), 1)

\* Lines 124-136: the list of {"reason", "amount_rs_cr"} dicts.
parse_reasons_breakup(txt) ==
    LET Dicts(found) ==
            [i \in 1..Len(found) |->
                [reason |-> found[i].reason, amount_rs_cr |-> found[i].amount_rs_cr]]
    IN  Dicts(ReasonsWithPlaces(txt))

(***************************************************************************)
(* The texts the extractors are run on: up to MaxLines lines of one report *)
(* section, in any order and with repeats.                                 *)
(***************************************************************************)
\* The MERC order figure.
MercLines ==
    <<
      \* Variable Charge (MERC Order): 4,521.30
      <<"V", "a", "r", "i", "a", "b", "l", "e", " ", "C", "h", "a", "r", "g", "e", " ",
        "(", "M", "E", "R", "C", " ", "O", "r", "d", "e", "r", ")", ":", " ", "4", ",",
        "5", "2", "1", ".", "3", "0">>,
      \* Variable charge MERC 3.5 Rs/kWh
      <<"V", "a", "r", "i", "a", "b", "l", "e", " ", "c", "h", "a", "r", "g", "e", " ",
        "M", "E", "R", "C", " ", "3", ".", "5", " ", "R", "s", "/", "k", "W", "h">>,
      \* Variable Charge as per MERC Rs/kWh:
      <<"V", "a", "r", "i", "a", "b", "l", "e", " ", "C", "h", "a", "r", "g", "e", " ",
        "a", "s", " ", "p", "e", "r", " ", "M", "E", "R", "C", " ", "R", "s", "/", "k",
        "W", "h", ":">>,
      \* 4.1 3.9
      <<"4", ".", "1", " ", "3", ".", "9">>,
      \* Variable Charge MERC Rs/kWh approx
      <<"V", "a", "r", "i", "a", "b", "l", "e", " ", "C", "h", "a", "r", "g", "e", " ",
        "M", "E", "R", "C", " ", "R", "s", "/", "k", "W", "h", " ", "a", "p", "p", "r",
        "o", "x">>,
      \* (a blank line)
      <<>>,
      \* approved tariff
      <<"a", "p", "p", "r", "o", "v", "e", "d", " ", "t", "a", "r", "i", "f", "f">>
    >>

\* The recoverable and the actual variable charge.
ChargeLines ==
    <<
      \* Variable Charge (Recoverable - MOD): 3.4
      <<"V", "a", "r", "i", "a", "b", "l", "e", " ", "C", "h", "a", "r", "g", "e", " ",
        "(", "R", "e", "c", "o", "v", "e", "r", "a", "b", "l", "e", " ", "-", " ", "M",
        "O", "D", ")", ":", " ", "3", ".", "4">>,
      \* Variable Charge Recoverable 3.3 Rs/kWh
      <<"V", "a", "r", "i", "a", "b", "l", "e", " ", "C", "h", "a", "r", "g", "e", " ",
        "R", "e", "c", "o", "v", "e", "r", "a", "b", "l", "e", " ", "3", ".", "3", " ",
        "R", "s", "/", "k", "W", "h">>,
      \* Variable Charge (Actual): 3.1
      <<"V", "a", "r", "i", "a", "b", "l", "e", " ", "C", "h", "a", "r", "g", "e", " ",
        "(", "A", "c", "t", "u", "a", "l", ")", ":", " ", "3", ".", "1">>,
      \* Actual Energy Charge Rs/kWh
      <<"A", "c", "t", "u", "a", "l", " ", "E", "n", "e", "r", "g", "y", " ", "C", "h",
        "a", "r", "g", "e", " ", "R", "s", "/", "k", "W", "h">>,
      \* 3.2
      <<"3", ".", "2">>,
      \* Unrecoverable MOD 0.4
      <<"U", "n", "r", "e", "c", "o", "v", "e", "r", "a", "b", "l", "e", " ", "M", "O",
        "D", " ", "0", ".", "4">>,
      \* Variable Charge Actual RsKWh - 2.9
      <<"V", "a", "r", "i", "a", "b", "l", "e", " ", "C", "h", "a", "r", "g", "e", " ",
        "A", "c", "t", "u", "a", "l", " ", "R", "s", "K", "W", "h", " ", "-", " ", "2",
        ".", "9">>
    >>

\* The disallowance and the unrecoverable charge.
DisallowanceLines ==
    <<
      \* Fuel cost Disallowance Rs.Cr 12.5
      <<"F", "u", "e", "l", " ", "c", "o", "s", "t", " ", "D", "i", "s", "a", "l", "l",
        "o", "w", "a", "n", "c", "e", " ", "R", "s", ".", "C", "r", " ", "1", "2", ".", "5">>,
      \* Disallowance Rs. Cr:
      <<"D", "i", "s", "a", "l", "l", "o", "w", "a", "n", "c", "e", " ", "R", "s", ".",
        " ", "C", "r", ":">>,
      \* -7.5
      <<"-", "7", ".", "5">>,
      \* Disallowance 9
      <<"D", "i", "s", "a", "l", "l", "o", "w", "a", "n", "c", "e", " ", "9">>,
      \* Unrecoverable 0.45 Rs/kWh
      <<"U", "n", "r", "e", "c", "o", "v", "e", "r", "a", "b", "l", "e", " ", "0", ".",
        "4", "5", " ", "R", "s", "/", "k", "W", "h">>,
      \* Rs.Cr 1,250
      <<"R", "s", ".", "C", "r", " ", "1", ",", "2", "5", "0">>,
      \* (a blank line)
      <<>>
    >>

\* Specific coal consumption.
SpCoalLines ==
    <<
      \* Sp Coal Consumption Allowable Actual
      <<"S", "p", " ", "C", "o", "a", "l", " ", "C", "o", "n", "s", "u", "m", "p", "t",
        "i", "o", "n", " ", "A", "l", "l", "o", "w", "a", "b", "l", "e", " ", "A", "c",
        "t", "u", "a", "l">>,
      \* 0.65 0.70
      <<"0", ".", "6", "5", " ", "0", ".", "7", "0">>,
      \* Sp coal consumption: allowable vs actual.
      <<"S", "p", " ", "c", "o", "a", "l", " ", "c", "o", "n", "s", "u", "m", "p", "t",
        "i", "o", "n", ":", " ", "a", "l", "l", "o", "w", "a", "b", "l", "e", " ", "v",
        "s", " ", "a", "c", "t", "u", "a", "l", ".">>,
      \* 0.68
      <<"0", ".", "6", "8">>,
      \* Allowable as per MERC Norm: 0.62
      <<"A", "l", "l", "o", "w", "a", "b", "l", "e", " ", "a", "s", " ", "p", "e", "r",
        " ", "M", "E", "R", "C", " ", "N", "o", "r", "m", ":", " ", "0", ".", "6", "2">>,
      \* Actual: 0.71
      <<"A", "c", "t", "u", "a", "l", ":", " ", "0", ".", "7", "1">>,
      \* Actual 1.2.3
      <<"A", "c", "t", "u", "a", "l", " ", "1", ".", "2", ".", "3">>
    >>

\* The coal-source table.
CoalLines ==
    <<
      \* Coal Source | GCV | Landed Cost
      <<"C", "o", "a", "l", " ", "S", "o", "u", "r", "c", "e", " ", "|", " ", "G", "C",
        "V", " ", "|", " ", "L", "a", "n", "d", "e", "d", " ", "C", "o", "s", "t">>,
      \* Adani | 3850 4200.50 1.25 18.3
      <<"A", "d", "a", "n", "i", " ", "|", " ", "3", "8", "5", "0", " ", "4", "2", "0",
        "0", ".", "5", "0", " ", "1", ".", "2", "5", " ", "1", "8", ".", "3">>,
      \* WCL-2 | 4,100 3900
      <<"W", "C", "L", "-", "2", " ", "|", " ", "4", ",", "1", "0", "0", " ", "3", "9",
        "0", "0">>,
      \* (a blank line)
      <<>>,
      \* Total 100
      <<"T", "o", "t", "a", "l", " ", "1", "0", "0">>,
      \* Coal source details
      <<"C", "o", "a", "l", " ", "s", "o", "u", "r", "c", "e", " ", "d", "e", "t", "a",
        "i", "l", "s">>
    >>

\* The reasons of the disallowance.
ReasonLines ==
    <<
      \* Stack loss - 2.15 rs.cr
      <<"S", "t", "a", "c", "k", " ", "l", "o", "s", "s", " ", "-", " ", "2", ".", "1",
        "5", " ", "r", "s", ".", "c", "r">>,
      \* Diff in LEQ & ARB GCV Loss - 1.10 Rs.Cr
      <<"D", "i", "f", "f", " ", "i", "n", " ", "L", "E", "Q", " ", "&", " ", "A", "R",
        "B", " ", "G", "C", "V", " ", "L", "o", "s", "s", " ", "-", " ", "1", ".", "1",
        "0", " ", "R", "s", ".", "C", "r">>,
      \* Plant / O&M /Other losses - 0.50 Rs.Cr
      <<"P", "l", "a", "n", "t", " ", "/", " ", "O", "&", "M", " ", "/", "O", "t", "h",
        "e", "r", " ", "l", "o", "s", "s", "e", "s", " ", "-", " ", "0", ".", "5", "0",
        " ", "R", "s", ".", "C", "r">>,
      \* Sp Oil Consn
      <<"S", "p", " ", "O", "i", "l", " ", "C", "o", "n", "s", "n">>,
      \* Total 5.5
      <<"T", "o", "t", "a", "l", " ", "5", ".", "5">>,
      \* Aux power consn Loss \u2013 0.2 rscr
      <<"A", "u", "x", " ", "p", "o", "w", "e", "r", " ", "c", "o", "n", "s", "n", " ",
        "L", "o", "s", "s", " ", "ndash", " ", "0", ".", "2", " ", "r", "s", "c", "r">>
    >>

Sections == {MercLines, ChargeLines, DisallowanceLines, SpCoalLines, CoalLines, ReasonLines}

SectionTexts(section) ==
    UNION {{JoinLines([i \in 1..n |-> section[pick[i]]]) : pick \in [1..n -> 1..Len(section)]} :
              n \in 0..MaxLines}

InitParse ==
    /\ text \in UNION {SectionTexts(section) : section \in Sections}
    /\ parsed = <<>>
    /\ view = <<>>
    /\ csv = NoFile
    /\ sheet = <<>>
    /\ draft = NoUpload
    /\ msg = NoMessage
    /\ df = <<>>
    /\ saved = <<>>
    /\ SessionsIdle

\* Lines 186-189: the four extractors in turn; the script run ends at the
\* first that raises.
Extract ==
    LET Results(sp) ==
            <<[vc |-> parse_variable_charge(text),
               spcoal |-> sp,
               coal_sources |-> IF sp.raised THEN <<>> ELSE parse_coal_sources(text),
               reasons |-> IF sp.raised THEN <<>> ELSE parse_reasons_breakup(text)]>>
    IN  /\ parsed = <<>>
        /\ parsed' = Results(parse_sp_coal(text))
        /\ UNCHANGED <<csv, sheet, draft, msg, df, saved, base, pc, rec, existing, reported,
                       order, text, view>>

NextParse == Extract

SpecParse == InitParse /\ [][NextParse]_vars

(***************************************************************************)
(* Properties of the save handler (Spec).                                  *)
(***************************************************************************)
SuccessText == "Record appended to Google Sheet AND local CSV."

LastSaved == saved[Len(saved)]

\* C1: whatever the remote append does (library missing, secrets missing,
\* transport error, API rejection, success), every save adds its record as
\* the last row of the local file, and the message shown is the success
\* message exactly when the remote append succeeded; otherwise it is the
\* warning, whose text differs from the success text.
C1_LocalAppendDespiteRemote ==
    /\ Len(csv.rows) = Len(saved)
    /\ saved # <<>> =>
          /\ csv.exists
          /\ csv.rows[Len(saved)] = AsWritten(LastSaved.record)
          /\ msg # NoMessage =>
                /\ LastSaved.env = "ok" => msg.kind = "success" /\ msg.text = SuccessText
                /\ LastSaved.env # "ok" => msg.kind = "warning" /\ msg.text # SuccessText

\* A save onto an existing file whose remote append failed in transport.
C1_Witness ==
    /\ Len(saved) = 2
    /\ LastSaved.env = "transport_error"
    /\ msg.kind = "warning"
    /\ msg.detail = "ConnectionError"
    /\ csv.rows[2] = AsWritten(LastSaved.record)

\* C2: the stored table is exactly the sequence of the saved records, in the
\* order they were saved: no save changes a row stored before it.
C2_AppendOnly ==
    csv.rows = [i \in 1..Len(saved) |-> AsWritten(saved[i].record)]

\* Missing values compare equal to each other (None, NaN).
Missing(v) == v.k \in {"none", "nan"}
SameValue(a, b) == IF Missing(a) \/ Missing(b) THEN Missing(a) /\ Missing(b) ELSE a = b

SameEntries(a, b) ==
    /\ Len(a) = Len(b)
    /\ \A i \in 1..Len(a) :
          /\ DOMAIN a[i] = DOMAIN b[i]
          /\ \A f \in DOMAIN a[i] : SameValue(a[i][f], b[i][f])

SubTableColumns == {"coal_sources", "reasons_breakup"}

\* C4: after a save, the last row of the frame read back from the file has
\* every field equal to the saved record's, and its two sub-tables, read
\* back from their JSON text, hold the entries that were saved.
C4_StoreRoundTrip ==
    saved # <<>> =>
        LET row == df[Len(df)]
            e == LastSaved
        IN  /\ Len(df) = Len(saved)
            /\ \A c \in Columns \ SubTableColumns : row[c] = e.record[c]
            /\ row["coal_sources"].k = "str"
            /\ row["reasons_breakup"].k = "str"
            /\ SameEntries(read_json(TextOf(row["coal_sources"])), e.draft.coal_sources)
            /\ SameEntries(read_json(TextOf(row["reasons_breakup"])), e.draft.reasons)

\* The numeric columns that an extractor fills.
ExtractedColumns == NumericColumns \ {"aux_power_pct", "sp_oil_ml_per_kwh"}

\* C6: in the row a save has just written the report date is present, and a
\* numeric field that extraction did not find and the reviewer did not
\* change is stored as null (the empty field), not as a number.
C6_AbsenceStoredAsNull ==
    saved # <<>> =>
        LET row == csv.rows[Len(csv.rows)]
            e == LastSaved
        IN  /\ ~IsNaText(row["report_date"])
            /\ \A c \in ExtractedColumns :
                  (Extracted(e.draft, c) = None /\ e.edit.column # c) => IsNaText(row[c])

(***************************************************************************)
(* Properties of two sessions saving at once (SpecConc).                   *)
(***************************************************************************)
BothDone == \A s \in Sessions : pc[s] = "done"

\* The place of a session's read or write in the order of the file operations.
Place(op, s) == CHOOSE i \in 1..Len(order) : order[i] = [op |-> op, s |-> s]

\* C3: once both saves have completed, both have shown their message, the
\* file is what the last writer wrote, with its record as the last row; the
\* other session's row is in the file exactly when the last writer read the
\* file after the other had written it.  Otherwise the file holds one row
\* more than before the two saves: the other's record is lost.
C3_LastWriterWins ==
    BothDone =>
        LET w == order[Len(order)].s
            o == CHOOSE s \in Sessions : s # w
            n == Len(base.rows)
        IN  /\ \A s \in Sessions : reported[s].kind \in {"success", "warning"}
            /\ csv.rows[Len(csv.rows)] = AsWritten(rec[w].record)
            /\ IF Place("read", w) < Place("write", o)
               THEN Len(csv.rows) = n + 1
               ELSE Len(csv.rows) = n + 2 /\ csv.rows[n + 1] = AsWritten(rec[o].record)

\* Both saves completed and reported success, the file holds the rows it
\* held before and one of the two records only.
C3_Witness ==
    /\ BothDone
    /\ \A s \in Sessions : reported[s].kind = "success"
    /\ rec[1].record # rec[2].record
    /\ base.rows # <<>>
    /\ Len(csv.rows) = Len(base.rows) + 1
    /\ \A i \in 1..Len(base.rows) : csv.rows[i] = base.rows[i]
    /\ csv.rows[Len(csv.rows)] = AsWritten(rec[2].record)
    /\ \A i \in 1..Len(csv.rows) : csv.rows[i] # AsWritten(rec[1].record)

(***************************************************************************)
(* Properties of the dashboard (SpecAgg).                                  *)
(***************************************************************************)
\* The sum of vals[i] over the indices in S.
RECURSIVE SumOver(_, _)
SumOver(S, vals) ==
    IF S = {} THEN 0
    ELSE LET i == CHOOSE x \in S : TRUE IN vals[i] + SumOver(S \ {i}, vals)

\* The rows of month m whose column c is not null.
NonNull(m, c) ==
    {i \in 1..Len(df) :
        /\ df[i]["report_date"].k = "str"
        /\ MonthOf[df[i]["report_date"].s] = m
        /\ df[i][c].k \notin {"nan", "none"}}

ColumnTenths(c) == [i \in 1..Len(df) |-> Tenths(df[i][c])]

\* The fraction r is the sum of column c over the non-null rows of month m
\* divided by their number (null when there is none).
IsMeanOf(r, m, c) ==
    IF NonNull(m, c) = {} THEN r.k = "nan"
    ELSE /\ r.k = "float"
         /\ r.sum * Cardinality(NonNull(m, c)) = SumOver(NonNull(m, c), ColumnTenths(c)) * r.count

\* C5: the months reported are the calendar months of the report dates; in
\* each, every mean is the sum of the month's non-null values divided by
\* their number, and the disallowance total is the sum of the non-null
\* values: a null is never counted as a zero.
C5_MonthlyAggregation ==
    view # <<>> =>
        LET agg == view[1].agg
        IN  /\ DOMAIN agg = {MonthOf[df[i]["report_date"].s] : i \in 1..Len(df)}
            /\ \A m \in DOMAIN agg :
                  /\ agg[m].total_disallowance_rs_cr =
                        Frac(SumOver(NonNull(m, "fuel_cost_disallowance_rs_cr"),
                                     ColumnTenths("fuel_cost_disallowance_rs_cr")), 1)
                  /\ IsMeanOf(agg[m].avg_vc_mer, m, "vc_merc_order")
                  /\ IsMeanOf(agg[m].avg_vc_actual, m, "vc_actual")
                  /\ IsMeanOf(agg[m].avg_sp_coal_actual, m, "sp_coal_actual")
                  /\ IsMeanOf(agg[m].avg_aux_power, m, "aux_power_pct")

\* Three records of October with actual variable charges 3.1, null and
\* 3.3, under two period labels: the mean shown is 6.4 / 2 = 3.2.
C5_Witness ==
    /\ view # <<>>
    /\ Len(df) = 3
    /\ \A i \in 1..3 : Month(df[i]) = "2025-10"
    /\ df[1]["vc_actual"] = Flt(31)
    /\ df[2]["vc_actual"] = NaN
    /\ df[3]["vc_actual"] = Flt(33)
    /\ df[1]["period_label"] # df[3]["period_label"]
    /\ view[1].agg["2025-10"].avg_vc_actual = Frac(64, 2)

\* C9: for the selected month, every name of the roll-up reports the number
\* of entries with that trimmed name, the average effective cost over the
\* entries whose effective cost is a non-zero number (null when there is
\* none), and the sum of the shares that are numbers: an entry with a null
\* cost or share changes neither the average nor the total.
C9_CoalRollup ==
    view # <<>> =>
        LET rows == SelectedRows(df, view[1].month_sel)
            entries == SubTableEntries(rows, "coal_sources", Len(rows))
            rollup == view[1].coal
            IsNumber(v) == v.k \in {"float", "int"}
            effs == [i \in 1..Len(entries) |-> Tenths(entries[i]["Eff_RsPerMkcal"])]
            pcts == [i \in 1..Len(entries) |-> Tenths(entries[i]["Pct_share"])]
        IN  \A name \in DOMAIN rollup :
                LET idx == {i \in 1..Len(entries) : NameOf(entries[i]["name"]) = name}
                    withEff == {i \in idx : IsNumber(entries[i]["Eff_RsPerMkcal"])
                                            /\ effs[i] # 0}
                    withPct == {i \in idx : IsNumber(entries[i]["Pct_share"])}
                    r == rollup[name]
                IN  /\ r.appearances = Cardinality(idx)
                    /\ IF withEff = {} THEN r.avg_eff_rs_per_mkcal.k \in {"none", "nan"}
                       ELSE /\ r.avg_eff_rs_per_mkcal.k = "float"
                            /\ r.avg_eff_rs_per_mkcal.sum * Cardinality(withEff)
                                  = SumOver(withEff, effs) * r.avg_eff_rs_per_mkcal.count
                    /\ r.total_pct_share = Frac(SumOver(withPct, pcts), 1)

(***************************************************************************)
(* Properties of the field extractors (SpecParse).                         *)
(***************************************************************************)
\* A captured fragment as the sub-field it should become: null when it is
\* no number.
NullIfNoNumber(lit) == IF FloatRaisesOn(lit) THEN PyNone ELSE PyFloat(lit)

\* C7: no extractor raises on any text: all four return a result, and a
\* captured run of digits and dots that is no number (".", "1.2.3") makes
\* only its own sub-field null while the rest of the extraction completes.
C7_ExtractorsNeverRaise ==
    parsed # <<>> =>
        /\ ~parsed[1].spcoal.raised
        /\ parsed[1].coal_sources = parse_coal_sources(text)
        /\ parsed[1].reasons = parse_reasons_breakup(text)
        /\ LET g == SpCoalSearch(Low(text))
           IN  g # <<>> =>
                  /\ parsed[1].spcoal.allowable
                        = NullIfNoNumber(SubSeq(text, g[1].a, g[1].b))
                  /\ parsed[1].spcoal.actual
                        = NullIfNoNumber(SubSeq(text, g[2].a, g[2].b))

\* The lines that satisfy the keyword rule of field f and hold a number.
MatchingLines(f, lines) ==
    {i \in 1..Len(lines) : LineRule(f, Low(lines[i])) /\ SearchNum(lines[i], 1).a # 0}

LineValue(l) == PyFloat(NumLit(l, SearchNum(l, 1)))

\* C8: each variable-charge sub-field takes the number of the first line, in
\* document order, that satisfies its keyword rule and holds a number; with
\* no such line it takes the whole-text fallback, else null.  A later
\* matching line never replaces the value of an earlier one.
C8_FirstMatchingLineWins ==
    parsed # <<>> =>
        LET lines == SplitLines(text)
        IN  \A f \in VcFields :
                parsed[1].vc[f] =
                    IF MatchingLines(f, lines) # {}
                    THEN LineValue(lines[Min(MatchingLines(f, lines))])
                    ELSE VcFallback(f, text)

\* C10: the text "Stack loss - 2.15 rs.cr" yields the one entry
\* {reason: "Stack", amount: 2.15}, and no amount of a text is reported
\* under two entries of the reasons breakup.
C10_NoAmountReportedTwice ==
    (parsed # <<>> /\ ~parsed[1].spcoal.raised) =>
        /\ text = ReasonLines[1] =>
              parsed[1].reasons =
                  <<[reason |-> <<"S", "t", "a", "c", "k">>,
                     amount_rs_cr |-> PyFloat(<<"2", ".", "1", "5">>)]>>
        /\ LET found == ReasonsWithPlaces(text)
           IN  \A i, j \in 1..Len(found) :
                   (i # j /\ found[i].at # 0) => found[i].at # found[j].at

====
